---- MODULE Spec2Model ----
(***************************************************************************)
(* PixelPusher-rs: the 84-byte discovery header codec (src/discovery.rs,   *)
(* src/device.rs) and the time-bounded, de-duplicating discovery session   *)
(* (discovery::discover).                                                  *)
(*                                                                         *)
(* Four state machines share the module:                                   *)
(*   Spec / FairSpec : discover() sessions - the caller's aggregator loop, *)
(*                     the detached receive threads, the mpsc channel, the *)
(*                     UDP port and a clock in seconds;                    *)
(*   CodecSpec       : the pure decoders and encoders applied to buffers   *)
(*                     drawn from a bounded family;                        *)
(*   PixelSpec       : PixelPusher::set_color on a device's pixel buffer;  *)
(*   FilterSpec      : the type filter applied to a discover snapshot.     *)
(***************************************************************************)
EXTENDS Integers, Sequences, FiniteSets, TLC

(***************************************************************************)
(* Program constants and bounds                                            *)
(***************************************************************************)
FrameLen == 84          \* let mut buf = [0; 84]
UnknownCode == 99       \* DeviceType::UNKNOWN => 99 in Header::serialize

MaxTimeout == 2         \* discover(timeout_secs): timeout_secs \in 1..MaxTimeout
MaxTime == 4            \* the clock stops at MaxTime seconds
MaxRecv == 2            \* datagrams the receive threads read, all sessions together
MaxSessions == 2        \* discover() calls made one after another
MaxFill == 2            \* fill patterns of the codec's input buffers
MaxWrites == 2          \* set_color calls on one device
MaxSnap == 3            \* entries of a snapshot handed to the type filter

Byte == 0..255
Idx == 0..(FrameLen - 1)

(***************************************************************************)
(* byteorder: Cursor reads.  A read of n bytes at position pos succeeds    *)
(* only when pos + n <= len; the caller unwrap()s the result.              *)
(***************************************************************************)
read_u8(buf, pos) == buf[pos]

\* Result::unwrap() of a sequence of reads that ends at position endpos
ReadsFit(endpos) == endpos <= FrameLen

Panic == [ variant |-> "panic" ]

\* a big-endian read: what a wrong byte order would produce
read_u16_BE(buf, pos) == buf[pos] * 256 + buf[pos + 1]

read_u16_LE(buf, pos) == buf[pos] + buf[pos + 1] * 256

\* A u32 is held as its two 16-bit halves, value = hi * 65536 + lo (TLC's
\* integers are 32-bit signed and cannot hold every u32).
read_u32_LE(buf, pos) ==
    [ lo |-> buf[pos] + buf[pos + 1] * 256,
      hi |-> buf[pos + 2] + buf[pos + 3] * 256 ]

\* Ipv4Addr::from(u32): the octets are the big-endian bytes of the integer
Ipv4FromU32(u) ==
    << u.hi \div 256, u.hi % 256, u.lo \div 256, u.lo % 256 >>

\* HwAddr::from(&buf[0..6])
HwAddrFrom(buf) == [i \in 1..6 |-> buf[i - 1]]

\* a dispatch that takes every code >= 2 for a PixelPusher
DeviceTypeOfLoose(code) ==
    CASE code = 0 -> "ETHERDREAM"
      [] code = 1 -> "LUMIABRIDGE"
      [] OTHER    -> "PIXELPUSHER"

\* match device_type_u8 { 0 => .., 1 => .., 2 => .., _ => UNKNOWN }
DeviceTypeOf(code) ==
    CASE code = 0 -> "ETHERDREAM"
      [] code = 1 -> "LUMIABRIDGE"
      [] code = 2 -> "PIXELPUSHER"
      [] OTHER    -> "UNKNOWN"


(***************************************************************************)
(* src/discovery.rs: Header::parse.  The cursor starts at 6 and every read *)
(* advances it by the width read; the extension is read on from 24.        *)
(***************************************************************************)
Header_parse(buf) ==
    LET hw_addr == HwAddrFrom(buf)
        p0 == 6
        ipu32 == read_u32_LE(buf, p0)
        p1 == p0 + 4
        device_type_u8 == read_u8(buf, p1)
        p2 == p1 + 1
        device_header ==
            [ mac_addr         |-> hw_addr,
              ip_addr          |-> Ipv4FromU32(ipu32),
              device_type      |-> DeviceTypeOf(device_type_u8),
              protocol_version |-> read_u8(buf, p2),
              vendor_id        |-> read_u16_LE(buf, p2 + 1),
              product_id       |-> read_u16_LE(buf, p2 + 3),
              hw_revision      |-> read_u16_LE(buf, p2 + 5),
              sw_revision      |-> read_u16_LE(buf, p2 + 7),
              link_speed       |-> read_u32_LE(buf, p2 + 9) ]
        p3 == p2 + 13
    IN  IF ~ReadsFit(IF DeviceTypeOf(device_type_u8) = "PIXELPUSHER"
                     THEN p3 + 30 ELSE p3)
        THEN Panic
        ELSE IF device_header.device_type = "PIXELPUSHER"
        THEN [ variant               |-> "PixelPusherHeader",
               device_header         |-> device_header,
               strips_attached       |-> read_u8(buf, p3),
               max_strips_per_packet |-> read_u8(buf, p3 + 1),
               pixels_per_strip      |-> read_u16_LE(buf, p3 + 2),
               update_period         |-> read_u32_LE(buf, p3 + 4),
               power_total           |-> read_u32_LE(buf, p3 + 8),
               delta_sequence        |-> read_u32_LE(buf, p3 + 12),
               controller            |-> read_u32_LE(buf, p3 + 16),
               group                 |-> read_u32_LE(buf, p3 + 20),
               artnet_universe       |-> read_u16_LE(buf, p3 + 24),
               artnet_channel        |-> read_u16_LE(buf, p3 + 26),
               my_port               |-> read_u16_LE(buf, p3 + 28) ]
        ELSE [ variant       |-> "DeviceHeader",
               device_header |-> device_header ]

(***************************************************************************)
(* src/device.rs: parse_header and parse_pixelpusher_header.  The second   *)
(* opens its own cursor and sets it to 24.                                 *)
(***************************************************************************)
parse_pixelpusher_header(base_header, buf) ==
    LET q == 24
    IN  IF ~ReadsFit(q + 30) THEN Panic ELSE
        [ variant               |-> "PixelPusherHeader",
          base_header           |-> base_header,
          strips_attached       |-> read_u8(buf, q),
          max_strips_per_packet |-> read_u8(buf, q + 1),
          pixels_per_strip      |-> read_u16_LE(buf, q + 2),
          update_period         |-> read_u32_LE(buf, q + 4),
          power_total           |-> read_u32_LE(buf, q + 8),
          delta_sequence        |-> read_u32_LE(buf, q + 12),
          controller            |-> read_u32_LE(buf, q + 16),
          group                 |-> read_u32_LE(buf, q + 20),
          artnet_universe       |-> read_u16_LE(buf, q + 24),
          artnet_channel        |-> read_u16_LE(buf, q + 26),
          my_port               |-> read_u16_LE(buf, q + 28) ]

parse_header(buf) ==
    LET hw_addr == HwAddrFrom(buf)
        p0 == 6
        ipu32 == read_u32_LE(buf, p0)
        p1 == p0 + 4
        device_type_u8 == read_u8(buf, p1)
        p2 == p1 + 1
        base_header ==
            [ variant          |-> "Header",
              hw_addr          |-> hw_addr,
              ip_addr          |-> Ipv4FromU32(ipu32),
              device_type      |-> DeviceTypeOf(device_type_u8),
              protocol_version |-> read_u8(buf, p2),
              vendor_id        |-> read_u16_LE(buf, p2 + 1),
              product_id       |-> read_u16_LE(buf, p2 + 3),
              hw_revision      |-> read_u16_LE(buf, p2 + 5),
              sw_revision      |-> read_u16_LE(buf, p2 + 7),
              link_speed       |-> read_u32_LE(buf, p2 + 9) ]
    IN  IF ~ReadsFit(p2 + 13)
        THEN Panic
        ELSE IF base_header.device_type = "PIXELPUSHER"
        THEN parse_pixelpusher_header(base_header, buf)
        ELSE base_header

(***************************************************************************)
(* src/device.rs: serialize.  The parameter is a shared borrow &Vec<u8>;   *)
(* the body clones it (to_owned) and writes into the clone w, which is     *)
(* dropped at the end of the call.  *_w is the clone just before the drop, *)
(* the operator without suffix is the caller's vector after the call.      *)
(***************************************************************************)
write_u16_LE(v) == << v % 256, (v \div 256) % 256 >>

write_u32_LE(v) ==
    << v.lo % 256, v.lo \div 256, v.hi % 256, v.hi \div 256 >>

DeviceTypeCode(t) ==
    CASE t = "ETHERDREAM"  -> 0
      [] t = "LUMIABRIDGE" -> 1
      [] t = "PIXELPUSHER" -> 2
      [] OTHER             -> UnknownCode

Header_serialize_w(h, wtr) ==
    wtr \o h.hw_addr \o h.ip_addr
        \o << DeviceTypeCode(h.device_type) >> \o << h.protocol_version >>
        \o write_u16_LE(h.vendor_id) \o write_u16_LE(h.product_id)
        \o write_u16_LE(h.hw_revision) \o write_u16_LE(h.sw_revision)
        \o write_u32_LE(h.link_speed)

Header_serialize(h, wtr) ==
    LET w == Header_serialize_w(h, wtr) IN wtr

PixelPusherHeader_serialize_w(h, wtr) ==
    LET after_base == Header_serialize(h.base_header, wtr)
    IN  after_base \o << h.strips_attached >> \o << h.max_strips_per_packet >>
            \o write_u16_LE(h.pixels_per_strip) \o write_u32_LE(h.update_period)
            \o write_u32_LE(h.power_total) \o write_u32_LE(h.delta_sequence)
            \o write_u32_LE(h.controller) \o write_u32_LE(h.group)
            \o write_u16_LE(h.artnet_universe) \o write_u16_LE(h.artnet_channel)
            \o write_u16_LE(h.my_port)

PixelPusherHeader_serialize(h, wtr) ==
    LET after_base == Header_serialize(h.base_header, wtr)
        w == PixelPusherHeader_serialize_w(h, wtr)
    IN  after_base

\* device.rs 46-48 and 96-98: the accessor of the trait, through
\* Box<dyn DeviceHeader>.  Header answers UNKNOWN whatever its field holds.
device_type(h) ==
    IF h.variant = "PixelPusherHeader" THEN "PIXELPUSHER" ELSE "UNKNOWN"

\* the call through Box<dyn DeviceHeader>
serialize(h, wtr) ==
    IF h.variant = "PixelPusherHeader"
    THEN PixelPusherHeader_serialize(h, wtr)
    ELSE Header_serialize(h, wtr)

(***************************************************************************)
(* The discovery session: discover(timeout_secs), src/discovery.rs 126-169 *)
(***************************************************************************)
VARIABLES
    now,          \* SystemTime::now(), in seconds
    session,      \* number of discover() calls made so far
    aggPc,        \* where the caller is: idle, check, wait, returned
    timeout_secs, \* the argument of the running call
    start,        \* let start = SystemTime::now()
    waitStart,    \* when the running recv_timeout began
    headers,      \* let mut headers: Vec<Header>
    seen_macs,    \* let mut seen_macs = HashSet::new()
    chan,         \* the mpsc channel of the running call (tx_headers -> rx_headers)
    taskPc,       \* per call, its spawned thread: none, bind, recv, panicked
    buf,          \* per thread, let mut buf = [0; 84]
    portOwner,    \* which thread's socket holds 0.0.0.0:7331 (0: nobody)
    nRecv,        \* datagrams read so far
    rxLog,        \* history: what the running call's thread sent, in order
    delivered,    \* history: what recv_timeout handed to the aggregator, in order
    failedInCall, \* history: the thread's bind or read failed before the return
    returnedAt,   \* history: the time at which the running call returned
    cpc, cbuf, dHdr, vHdr, wtr,  \* the codec machine, see CodecSpec
    dtype,        \* what header.device_type() returned
    pheader, buffer, prevBuffer, calls,  \* a PixelPusher device, see PixelSpec
    fpc, snapshot, filterType, filtered  \* the type filter, see FilterSpec

sessionVars == << now, session, aggPc, timeout_secs, start, waitStart, headers,
                  seen_macs, chan, taskPc, buf, portOwner, nRecv, rxLog,
                  delivered, failedInCall, returnedAt >>
codecVars == << cpc, cbuf, dHdr, vHdr, wtr, dtype >>
pixelVars == << pheader, buffer, prevBuffer, calls >>
filterVars == << fpc, snapshot, filterType, filtered >>
vars == << sessionVars, codecVars, pixelVars, filterVars >>

Sessions == 1..MaxSessions

ZeroBuf == [i \in Idx |-> 0]

(***************************************************************************)
(* The datagrams the network may deliver: the whole 84-byte frames of two  *)
(* devices, a PixelPusher (type 2) and a LumiaBridge (type 1), and short   *)
(* datagrams cut from them.                                                *)
(***************************************************************************)
Devices == { << 170, 2 >>, << 17, 1 >> }
Lens == {6, FrameLen}

Frame(m, ty) ==
    [i \in 1..FrameLen |->
        CASE i = 1 \/ i = 6 -> m
          [] i \in 2..5     -> 17 * i
          [] i \in 7..9     -> 190 + i
          [] i = 10         -> m
          [] i = 11         -> ty
          [] OTHER          -> (i + m) % 256]

Datagrams == { SubSeq(Frame(dv[1], dv[2]), 1, n) : dv \in Devices, n \in Lens }

\* socket.recv_from(&mut buf): the first amt bytes of buf are overwritten,
\* the others keep what an earlier datagram (or the initial zeros) left there
recv_from(b, d) == [i \in Idx |-> IF i < Len(d) THEN d[i + 1] ELSE b[i]]

\* HwAddr's Display: two hex digits per octet, separated by colons (16)
to_string(mac) ==
    [k \in 1..17 |->
        IF k % 3 = 0 THEN 16
        ELSE IF k % 3 = 1 THEN mac[(k + 2) \div 3] \div 16
        ELSE mac[(k + 1) \div 3] % 16]

\* lines 149-157: the match that takes the address out of either variant
mac_addr(val) == to_string(val.device_header.mac_addr)

\* a membership test that never finds anything
containsNever(seen, mac) == FALSE

\* line 158: seen_macs.contains(&mac_addr)
contains(seen, mac) == mac \in seen

\* an insertion at the front
pushFront(hs, val) == << val >> \o hs

\* line 162: headers.push(val)
push(hs, val) == Append(hs, val)

\* the value discover hands to its caller: always a plain Vec<Header>
DiscoverResult == [ kind |-> "Vec", value |-> headers ]

(***************************************************************************)
(* Initial state: no call made yet; the codec machine is parked.           *)
(***************************************************************************)
CodecParked ==
    /\ cpc = "off"
    /\ cbuf = ZeroBuf
    /\ dHdr = Panic
    /\ vHdr = Panic
    /\ wtr = << >>
    /\ dtype = "none"

(***************************************************************************)
(* src/device.rs 183-198: PixelPusher, its pixel buffer and set_color.     *)
(***************************************************************************)
RowPixels == 480        \* buffer: [u8; 480 * 8 * 3]
Rows == 8
Channels == 3

BufferLen == RowPixels * Rows * Channels

\* The array is held as the map of the bytes stored so far: byte k of the
\* array is x[k] when k is in the map, and the byte the array was created
\* with otherwise.  No byte stored yet:
FreshBuffer == [k \in {} |-> 0]

\* x[k] = v
store(x, k, v) == [i \in (DOMAIN x) \cup {k} |-> IF i = k THEN v ELSE x[i]]

\* an index that forgets the three bytes of a pixel
set_color_indexDense(strip, pixel) == (RowPixels * 3 * strip) + pixel

\* line 193: let index = (480 * 3 * (strip as usize)) + (pixel as usize * 3)
set_color_index(strip, pixel) == (RowPixels * 3 * strip) + (pixel * 3)

\* lines 192-196: the three indexed stores, each bounds-checked; a store
\* past the end of the array panics and the stores before it stay done.
\* The header of the device is not consulted.
set_color(x, strip, pixel, color) ==
    LET index == set_color_index(strip, pixel)
        x1 == store(x, index, color[1])
        x2 == store(x1, index + 1, color[2])
        x3 == store(x2, index + 2, color[3])
    IN  IF index >= BufferLen
        THEN [ outcome |-> "panic", buffer |-> x, touched |-> {} ]
        ELSE IF index + 1 >= BufferLen
        THEN [ outcome |-> "panic", buffer |-> x1, touched |-> {index} ]
        ELSE IF index + 2 >= BufferLen
        THEN [ outcome |-> "panic", buffer |-> x2, touched |-> {index, index + 1} ]
        ELSE [ outcome |-> "ok", buffer |-> x3,
               touched |-> {index, index + 1, index + 2} ]

PixelParked ==
    /\ pheader = [ strips_attached |-> 0, pixels_per_strip |-> 0 ]
    /\ buffer = FreshBuffer
    /\ prevBuffer = FreshBuffer
    /\ calls = << >>

FilterParked ==
    /\ fpc = "off"
    /\ snapshot = << >>
    /\ filterType = "none"
    /\ filtered = << >>

SessionInit ==
    /\ now = 0
    /\ session = 0
    /\ aggPc = "idle"
    /\ timeout_secs = 1
    /\ start = 0
    /\ waitStart = 0
    /\ headers = << >>
    /\ seen_macs = {}
    /\ chan = << >>
    /\ taskPc = [s \in Sessions |-> "none"]
    /\ buf = [s \in Sessions |-> ZeroBuf]
    /\ portOwner = 0
    /\ nRecv = 0
    /\ rxLog = << >>
    /\ delivered = << >>
    /\ failedInCall = FALSE
    /\ returnedAt = 0

Init == SessionInit /\ CodecParked /\ PixelParked /\ FilterParked

\* the receiver rx_headers lives from the call to the return of discover
ReceiverAlive(s) == s = session /\ aggPc # "returned"

\* the end of the discovery window of the running call
Deadline == start + timeout_secs

\* a wait that gives up at once (try_recv)
recv_timeout_atOnce == TRUE

\* a wait without a time limit (recv)
recv_timeout_never == FALSE

\* line 146: the wait of recv_timeout(Duration::from_secs(timeout_secs)) is
\* over: the whole timeout has passed since the call of recv_timeout
recv_timeout_expired == now >= waitStart + timeout_secs

\* the sender tx_headers lives as long as the thread that owns it
SenderAlive == taskPc[session] # "panicked"

(***************************************************************************)
(* lines 126-141: the call.  channel(), thread::spawn, the empty Vec, the  *)
(* start time and the empty HashSet.  A call is made only while the clock  *)
(* leaves it room to run to its end (twice the timeout), so that MaxTime   *)
(* never cuts a call short.                                                *)
(***************************************************************************)
Discover(t) ==
    /\ aggPc \in {"idle", "returned"}
    /\ session < MaxSessions
    /\ now + 2 * t <= MaxTime
    /\ session' = session + 1
    /\ timeout_secs' = t
    /\ taskPc' = [taskPc EXCEPT ![session + 1] = "bind"]
    /\ chan' = << >>
    /\ headers' = << >>
    /\ seen_macs' = {}
    /\ start' = now
    /\ aggPc' = "check"
    /\ rxLog' = << >>
    /\ delivered' = << >>
    /\ failedInCall' = FALSE
    /\ UNCHANGED << now, waitStart, buf, portOwner, nRecv, returnedAt, codecVars, pixelVars, filterVars >>

(***************************************************************************)
(* line 130: UdpSocket::bind("0.0.0.0:7331").unwrap() in the thread.  The  *)
(* bind fails when another socket holds the port, and may fail for reasons *)
(* outside the program; the unwrap then panics the thread, which drops     *)
(* tx_headers.                                                             *)
(***************************************************************************)
TaskBind(s, ok) ==
    /\ taskPc[s] = "bind"
    /\ ok => portOwner = 0
    /\ IF ok
       THEN /\ taskPc' = [taskPc EXCEPT ![s] = "recv"]
            /\ portOwner' = s
            /\ UNCHANGED failedInCall
       ELSE /\ taskPc' = [taskPc EXCEPT ![s] = "panicked"]
            /\ failedInCall' = (failedInCall \/ ReceiverAlive(s))
            /\ UNCHANGED portOwner
    /\ UNCHANGED << now, session, aggPc, timeout_secs, start, waitStart, headers,
                    seen_macs, chan, buf, nRecv, rxLog, delivered, returnedAt,
                    codecVars, pixelVars, filterVars >>

(***************************************************************************)
(* lines 132-135: one turn of the thread's loop.  recv_from returns a      *)
(* datagram d; the amount read is ignored; the whole buffer is parsed and  *)
(* the header sent.  send fails when the receiver is gone; the result of   *)
(* send is ignored and the loop goes on.                                   *)
(***************************************************************************)
TaskRecv(s, d) ==
    /\ taskPc[s] = "recv"
    /\ nRecv < MaxRecv
    /\ nRecv' = nRecv + 1
    /\ buf' = [buf EXCEPT ![s] = recv_from(buf[s], d)]
    /\ LET msg == [ hdr |-> Header_parse(buf'[s]), late |-> Deadline < now,
                     amt |-> Len(d) ]
       IN  IF ReceiverAlive(s)
           THEN /\ chan' = Append(chan, msg)
                /\ rxLog' = Append(rxLog, msg)
           ELSE UNCHANGED << chan, rxLog >>
    /\ UNCHANGED << now, session, aggPc, timeout_secs, start, waitStart, headers,
                    seen_macs, taskPc, portOwner, delivered, failedInCall,
                    returnedAt, codecVars, pixelVars, filterVars >>

\* line 133: recv_from returns Err; unwrap panics; the unwinding thread
\* drops the socket and tx_headers
TaskRecvFail(s) ==
    /\ taskPc[s] = "recv"
    /\ taskPc' = [taskPc EXCEPT ![s] = "panicked"]
    /\ portOwner' = 0
    /\ failedInCall' = (failedInCall \/ ReceiverAlive(s))
    /\ UNCHANGED << now, session, aggPc, timeout_secs, start, waitStart, headers,
                    seen_macs, chan, buf, nRecv, rxLog, delivered, returnedAt,
                    codecVars, pixelVars, filterVars >>

(***************************************************************************)
(* lines 143-146: the deadline test at the top of the loop, then the call  *)
(* of recv_timeout with the whole timeout.                                 *)
(***************************************************************************)
AggCheck ==
    /\ aggPc = "check"
    /\ IF Deadline < now
       THEN /\ aggPc' = "returned"
            /\ returnedAt' = now
            /\ UNCHANGED waitStart
       ELSE /\ aggPc' = "wait"
            /\ waitStart' = now
            /\ UNCHANGED returnedAt
    /\ UNCHANGED << now, session, timeout_secs, start, headers, seen_macs, chan,
                    taskPc, buf, portOwner, nRecv, rxLog, delivered,
                    failedInCall, codecVars, pixelVars, filterVars >>

\* a loop body that pushes the header but forgets seen_macs.insert
AggRecvOkNoInsert ==
    /\ aggPc = "wait"
    /\ chan # << >>
    /\ LET msg == Head(chan)
           val == msg.hdr
       IN  /\ delivered' = Append(delivered, msg)
           /\ IF contains(seen_macs, mac_addr(val))
              THEN UNCHANGED << seen_macs, headers >>
              ELSE /\ UNCHANGED seen_macs
                   /\ headers' = push(headers, val)
    /\ chan' = Tail(chan)
    /\ aggPc' = "check"
    /\ UNCHANGED << now, session, timeout_secs, start, waitStart, taskPc, buf,
                    portOwner, nRecv, rxLog, failedInCall, returnedAt, codecVars, pixelVars, filterVars >>

\* lines 147-162: recv_timeout returned Ok(val)
AggRecvOk ==
    /\ aggPc = "wait"
    /\ chan # << >>
    /\ LET msg == Head(chan)
           val == msg.hdr
       IN  /\ delivered' = Append(delivered, msg)
           /\ IF contains(seen_macs, mac_addr(val))
              THEN UNCHANGED << seen_macs, headers >>
              ELSE /\ seen_macs' = seen_macs \cup { mac_addr(val) }
                   /\ headers' = push(headers, val)
    /\ chan' = Tail(chan)
    /\ aggPc' = "check"
    /\ UNCHANGED << now, session, timeout_secs, start, waitStart, taskPc, buf,
                    portOwner, nRecv, rxLog, failedInCall, returnedAt, codecVars, pixelVars, filterVars >>

\* lines 163-168: recv_timeout returned Err (Timeout after the whole wait, or
\* Disconnected once the channel is empty and the sender dropped): break, return
AggRecvErr ==
    /\ aggPc = "wait"
    /\ chan = << >>
    /\ \/ recv_timeout_expired
       \/ ~SenderAlive
    /\ aggPc' = "returned"
    /\ returnedAt' = now
    /\ UNCHANGED << now, session, timeout_secs, start, waitStart, headers,
                    seen_macs, chan, taskPc, buf, portOwner, nRecv, rxLog,
                    delivered, failedInCall, codecVars, pixelVars, filterVars >>

(***************************************************************************)
(* The clock.  The caller's own steps take no time: a second passes only   *)
(* while the caller is blocked in recv_timeout with nothing to receive.    *)
(***************************************************************************)
Tick ==
    /\ aggPc = "wait"
    /\ chan = << >>
    /\ SenderAlive
    /\ ~recv_timeout_expired
    /\ now < MaxTime
    /\ now' = now + 1
    /\ UNCHANGED << session, aggPc, timeout_secs, start, waitStart, headers,
                    seen_macs, chan, taskPc, buf, portOwner, nRecv, rxLog,
                    delivered, failedInCall, returnedAt, codecVars, pixelVars, filterVars >>

Next ==
    \/ \E t \in 1..MaxTimeout : Discover(t)
    \/ \E s \in Sessions, ok \in BOOLEAN : TaskBind(s, ok)
    \/ \E s \in Sessions, d \in Datagrams : TaskRecv(s, d)
    \/ \E s \in Sessions : TaskRecvFail(s)
    \/ AggCheck
    \/ AggRecvOk
    \/ AggRecvErr
    \/ Tick

Spec == Init /\ [][Next]_vars

(***************************************************************************)
(* FairSpec: what the scheduling guarantees.  The caller's own steps, the  *)
(* clock and a spawned thread's bind attempt happen eventually; nothing    *)
(* obliges the network to deliver a datagram, a socket read to fail, or    *)
(* the caller to call discover again.                                      *)
(***************************************************************************)
FairSpec ==
    /\ Spec
    /\ WF_vars(AggCheck \/ AggRecvOk \/ AggRecvErr)
    /\ WF_vars(Tick)
    /\ WF_vars(\E s \in Sessions, ok \in BOOLEAN : TaskBind(s, ok))

(***************************************************************************)
(* The codec machine: a buffer drawn from a bounded family (every value of *)
(* the device-type byte, MaxFill + 1 fillings of the other bytes), decoded *)
(* by both decoders, then encoded into the caller's empty Vec.             *)
(***************************************************************************)
Pattern(f, i) == (i * (2 * f + 3) + 7 * f + 129) % 256

CodecBuf(ty, f) == [i \in Idx |-> IF i = 10 THEN ty ELSE Pattern(f, i)]

CodecInputs == { CodecBuf(ty, f) : ty \in Byte, f \in 0..MaxFill }

CodecInit ==
    /\ SessionInit
    /\ PixelParked
    /\ FilterParked
    /\ cpc = "input"
    /\ cbuf \in CodecInputs
    /\ dHdr = Panic
    /\ vHdr = Panic
    /\ wtr = << >>
    /\ dtype = "none"

\* discovery::Header::parse(buf)
CodecParse ==
    /\ cpc = "input"
    /\ dHdr' = Header_parse(cbuf)
    /\ cpc' = "parsed"
    /\ UNCHANGED << cbuf, vHdr, wtr, dtype, sessionVars, pixelVars, filterVars >>

\* device::parse_header(buf)
CodecParseHeader ==
    /\ cpc = "parsed"
    /\ vHdr' = parse_header(cbuf)
    /\ cpc' = "decoded"
    /\ UNCHANGED << cbuf, dHdr, wtr, dtype, sessionVars, pixelVars, filterVars >>

\* header.serialize(&wtr) on the decoded header
CodecSerialize ==
    /\ cpc = "decoded"
    /\ wtr' = serialize(vHdr, wtr)
    /\ cpc' = "encoded"
    /\ UNCHANGED << cbuf, dHdr, vHdr, dtype, sessionVars, pixelVars, filterVars >>

\* header.device_type() on the decoded header
CodecDeviceType ==
    /\ cpc = "decoded"
    /\ dtype' = device_type(vHdr)
    /\ cpc' = "typed"
    /\ UNCHANGED << cbuf, dHdr, vHdr, wtr, sessionVars, pixelVars, filterVars >>

CodecNext == CodecParse \/ CodecParseHeader \/ CodecSerialize \/ CodecDeviceType

CodecSpec == CodecInit /\ [][CodecNext]_vars

(***************************************************************************)
(* Properties of the discovery session                                     *)
(***************************************************************************)
Returned == aggPc = "returned"

MacOf(h) == h.device_header.mac_addr

\* the index of the first message of log that carries address m
FirstIdx(log, m) ==
    CHOOSE i \in DOMAIN log :
        /\ MacOf(log[i].hdr) = m
        /\ \A j \in DOMAIN log : MacOf(log[j].hdr) = m => i <= j

DeliveredMacs == { MacOf(delivered[i].hdr) : i \in DOMAIN delivered }

\* the delivered message a snapshot entry was built from
Origin(i) == delivered[FirstIdx(delivered, MacOf(headers[i]))]

\* C1: the snapshot discover returns has exactly one entry for each distinct
\* hardware address among the headers delivered to the aggregator, and that
\* entry is the first header delivered with that address.
C1_OneEntryPerAddress ==
    Returned =>
        /\ \A m \in DeliveredMacs :
              /\ Cardinality({ i \in DOMAIN headers : MacOf(headers[i]) = m }) = 1
              /\ \E i \in DOMAIN headers :
                    headers[i] = delivered[FirstIdx(delivered, m)].hdr
        /\ \A i \in DOMAIN headers : MacOf(headers[i]) \in DeliveredMacs

\* two different headers with the same address were delivered, one was kept
C1_Witness ==
    /\ Returned
    /\ Len(delivered) = 2
    /\ MacOf(delivered[1].hdr) = MacOf(delivered[2].hdr)
    /\ delivered[1].hdr # delivered[2].hdr
    /\ headers = << delivered[1].hdr >>

\* C2: discover(timeout) returns no later than timeout plus one scheduling
\* quantum (one second of the clock) after it started.
C2_ReturnsByDeadline ==
    Returned => returnedAt <= start + timeout_secs + 1

\* C3: once discover has returned, the receive thread of that call
\* eventually terminates and its socket no longer holds port 7331.
C3_TaskTerminates ==
    \A s \in Sessions :
        (session = s /\ Returned) ~> (taskPc[s] = "panicked" /\ portOwner # s)

\* C4: when the bind or a read failed during the call, the value discover
\* returns is a failure, distinguishable from a snapshot.
C4_FailureSurfaced ==
    (Returned /\ failedInCall) => DiscoverResult.kind = "SocketError"

\* C5: two entries of the returned snapshot stand in the order in which the
\* receive thread received the first datagram of their addresses.
C5_ArrivalOrder ==
    Returned =>
        \A i, j \in DOMAIN headers :
            i # j =>
                ( i < j <=> FirstIdx(rxLog, MacOf(headers[i]))
                              < FirstIdx(rxLog, MacOf(headers[j])) )

\* two devices were heard and both are in the snapshot
C5_Witness ==
    /\ Returned
    /\ Len(rxLog) = 2
    /\ Len(headers) = 2
    /\ headers[1] = rxLog[1].hdr
    /\ headers[2] = rxLog[2].hdr

\* C6: every entry of the returned snapshot comes from a datagram received
\* within the window [start, start + timeout].
C6_WithinWindow ==
    Returned => \A i \in DOMAIN headers : ~Origin(i).late

\* C7: no entry of the returned snapshot was built from a datagram shorter
\* than 84 bytes.
C7_NoEntryFromShortDatagram ==
    Returned => \A i \in DOMAIN headers : Origin(i).amt = FrameLen

(***************************************************************************)
(* Properties of the codec                                                 *)
(***************************************************************************)
U16At(lo, hi) == cbuf[lo] + 256 * cbuf[hi]

U32At(b0, b1, b2, b3) ==
    [ lo |-> cbuf[b0] + 256 * cbuf[b1], hi |-> cbuf[b2] + 256 * cbuf[b3] ]

ExpectedType ==
    IF cbuf[10] = 0 THEN "ETHERDREAM"
    ELSE IF cbuf[10] = 1 THEN "LUMIABRIDGE"
    ELSE IF cbuf[10] = 2 THEN "PIXELPUSHER"
    ELSE "UNKNOWN"

\* C8: for every value of the device-type byte, decoding does not fail and
\* yields the type of that code; the header is the PixelPusher variant with
\* the extended fields iff the byte is 2, and the base-only variant otherwise.
C8_Dispatch ==
    cpc # "input" =>
        /\ dHdr # Panic
        /\ dHdr.device_header.device_type = ExpectedType
        /\ (dHdr.variant = "PixelPusherHeader") <=> (cbuf[10] = 2)
        /\ (dHdr.variant = "DeviceHeader") <=> (cbuf[10] # 2)
        /\ ("strips_attached" \in DOMAIN dHdr) <=> (cbuf[10] = 2)
        /\ cbuf[10] # 2 => DOMAIN dHdr = {"variant", "device_header"}

\* an unrecognised code was decoded
C8_Witness ==
    /\ cpc = "parsed"
    /\ cbuf[10] = 255
    /\ dHdr.variant = "DeviceHeader"
    /\ dHdr.device_header.device_type = "UNKNOWN"

\* C9: each field is read from its fixed offset, little-endian, and the two
\* decoders agree on every field.
C9_BaseOffsets(b) ==
    /\ b.protocol_version = cbuf[11]
    /\ b.vendor_id = U16At(12, 13)
    /\ b.product_id = U16At(14, 15)
    /\ b.hw_revision = U16At(16, 17)
    /\ b.sw_revision = U16At(18, 19)
    /\ b.link_speed = U32At(20, 21, 22, 23)

C9_ExtOffsets(h) ==
    /\ h.strips_attached = cbuf[24]
    /\ h.max_strips_per_packet = cbuf[25]
    /\ h.pixels_per_strip = U16At(26, 27)
    /\ h.update_period = U32At(28, 29, 30, 31)
    /\ h.power_total = U32At(32, 33, 34, 35)
    /\ h.delta_sequence = U32At(36, 37, 38, 39)
    /\ h.controller = U32At(40, 41, 42, 43)
    /\ h.group = U32At(44, 45, 46, 47)
    /\ h.artnet_universe = U16At(48, 49)
    /\ h.artnet_channel = U16At(50, 51)
    /\ h.my_port = U16At(52, 53)

C9_FixedOffsets ==
    cpc \in {"decoded", "encoded"} =>
        LET vBase == IF cbuf[10] = 2 THEN vHdr.base_header ELSE vHdr
        IN  /\ dHdr.device_header.mac_addr =
                  << cbuf[0], cbuf[1], cbuf[2], cbuf[3], cbuf[4], cbuf[5] >>
            /\ vBase.hw_addr = dHdr.device_header.mac_addr
            /\ C9_BaseOffsets(dHdr.device_header)
            /\ C9_BaseOffsets(vBase)
            /\ cbuf[10] = 2 => C9_ExtOffsets(dHdr) /\ C9_ExtOffsets(vHdr)

\* a PixelPusher frame whose 16-bit fields have two different bytes
C9_Witness ==
    /\ cpc = "decoded"
    /\ cbuf[10] = 2
    /\ cbuf[26] # cbuf[27]
    /\ vHdr.pixels_per_strip = cbuf[26] + 256 * cbuf[27]
    /\ dHdr.my_port = cbuf[52] + 256 * cbuf[53]

\* the caller's Vec<u8> as a [u8; 84]
AsArray(v) == [i \in Idx |-> v[i + 1]]

\* C10: after serialize the caller's buffer holds the 84 wire bytes of the
\* header, and decoding them gives the header back.
C10_RoundTrip ==
    cpc = "encoded" =>
        /\ Len(wtr) = FrameLen
        /\ parse_header(AsArray(wtr)) = vHdr

\* C11: device_type() of the header parse_header returns is the device type
\* decoded from the type byte of the buffer.
C11_AccessorType ==
    cpc = "typed" => dtype = ExpectedType

\* C16: the decoder takes the wire bytes 6-9 as the octets of the address in
\* that order, the order in which serialize writes them, so that the bytes
\* serialize writes for a decoded address are the bytes it was decoded from.
C16_IpOctetOrder ==
    cpc \in {"decoded", "typed", "encoded"} =>
        LET vBase == IF cbuf[10] = 2 THEN vHdr.base_header ELSE vHdr
            w == Header_serialize_w(vBase, << >>)
        IN  /\ vBase.ip_addr = << cbuf[6], cbuf[7], cbuf[8], cbuf[9] >>
            /\ dHdr.device_header.ip_addr = << cbuf[6], cbuf[7], cbuf[8], cbuf[9] >>
            /\ << w[7], w[8], w[9], w[10] >> = << cbuf[6], cbuf[7], cbuf[8], cbuf[9] >>

(***************************************************************************)
(* The pixel machine: a PixelPusher whose header declares some strips and  *)
(* pixels per strip, and up to MaxWrites calls of set_color with u8        *)
(* arguments drawn from the ends and the middle of their range.            *)
(***************************************************************************)
PixelHeaders ==
    { [ strips_attached |-> 2, pixels_per_strip |-> 30 ],
      [ strips_attached |-> 8, pixels_per_strip |-> 480 ] }

StripArgs == {0, 7, 8}
PixelArgs == {0, 1, 255}
ColorArgs == { << 1, 2, 3 >>, << 255, 0, 9 >> }

PixelInit ==
    /\ SessionInit
    /\ CodecParked
    /\ FilterParked
    /\ pheader \in PixelHeaders
    /\ buffer = FreshBuffer
    /\ prevBuffer = FreshBuffer
    /\ calls = << >>

\* device.set_color(strip, pixel, color)
SetColor(strip, pixel, color) ==
    /\ pheader \in PixelHeaders
    /\ Len(calls) < MaxWrites
    /\ LET r == set_color(buffer, strip, pixel, color)
       IN  /\ buffer' = r.buffer
           /\ prevBuffer' = buffer
           /\ calls' = Append(calls, [ strip |-> strip, pixel |-> pixel,
                                       color |-> color, outcome |-> r.outcome,
                                       touched |-> r.touched ])
    /\ UNCHANGED << pheader, sessionVars, codecVars, filterVars >>

PixelNext ==
    \E strip \in StripArgs, pixel \in PixelArgs, color \in ColorArgs :
        SetColor(strip, pixel, color)

PixelSpec == PixelInit /\ [][PixelNext]_vars

LastCall == calls[Len(calls)]

\* C12: a write whose strip index is >= strips_attached or whose pixel index
\* is >= pixels_per_strip of the device's header fails and leaves the whole
\* buffer unchanged.
C12_OutOfRangeRejected ==
    (calls # << >> /\ ( \/ LastCall.strip >= pheader.strips_attached
                        \/ LastCall.pixel >= pheader.pixels_per_strip ))
        => (LastCall.outcome = "panic" /\ buffer = prevBuffer)

\* C15: a set_color call that succeeds writes R, G, B at strip*1440 + pixel*3,
\* +1 and +2 and nothing else; writes to different (strip, pixel) pairs touch
\* no byte in common.
C15_ThreeBytes ==
    /\ (calls # << >> /\ LastCall.outcome = "ok") =>
          LET off == LastCall.strip * 1440 + LastCall.pixel * 3
          IN  /\ buffer[off] = LastCall.color[1]
              /\ buffer[off + 1] = LastCall.color[2]
              /\ buffer[off + 2] = LastCall.color[3]
              /\ DOMAIN buffer = (DOMAIN prevBuffer) \cup {off, off + 1, off + 2}
              /\ \A k \in DOMAIN prevBuffer :
                    k \notin {off, off + 1, off + 2} => buffer[k] = prevBuffer[k]
    /\ \A i, j \in DOMAIN calls :
          ( /\ calls[i].outcome = "ok"
            /\ calls[j].outcome = "ok"
            /\ << calls[i].strip, calls[i].pixel >> # << calls[j].strip, calls[j].pixel >> )
          => calls[i].touched \cap calls[j].touched = {}

\* two neighbouring pixels of one strip were written with different colours
C15_Witness ==
    /\ Len(calls) = 2
    /\ calls[1].outcome = "ok"
    /\ calls[2].outcome = "ok"
    /\ calls[1].strip = 7
    /\ calls[2].strip = 7
    /\ calls[1].pixel = 0
    /\ calls[2].pixel = 1
    /\ buffer[10080] = 1
    /\ buffer[10083] = 255

\* C20: for every strip 0..7 and every pixel 0..479 of the reference layout
\* there is a set_color call (with u8 arguments) that writes that pixel's
\* three bytes.
C20_EverySlotAddressable ==
    pheader \in PixelHeaders =>
        \A px \in 0..(RowPixels - 1), st \in 0..(Rows - 1) :
            \E strip \in Byte, pixel \in Byte :
                LET r == set_color(buffer, strip, pixel, << 1, 2, 3 >>)
                IN  /\ r.outcome = "ok"
                    /\ r.touched = { st * 1440 + px * 3, st * 1440 + px * 3 + 1,
                                     st * 1440 + px * 3 + 2 }

Running == aggPc \in {"check", "wait"}

\* C13: when no datagram arrives during the window and the socket works,
\* discover returns an empty Vec, and not before the deadline.
C13_EmptyAtDeadline ==
    (Returned /\ rxLog = << >> /\ ~failedInCall) =>
        /\ DiscoverResult = [ kind |-> "Vec", value |-> << >> ]
        /\ returnedAt >= start + timeout_secs

\* a call on a bound socket that heard nothing has returned
C13_Witness ==
    /\ Returned
    /\ taskPc[session] = "recv"
    /\ rxLog = << >>
    /\ headers = << >>
    /\ returnedAt = start + timeout_secs

\* C17: when a call of discover spawns its thread, port 7331 is free for it
\* to bind: no thread of an earlier call still holds it.
C17_PortFreeForNextCall ==
    \A s \in Sessions : taskPc[s] = "bind" => portOwner = 0

\* C18: discover always returns: while it runs the caller always has a step
\* to take or time left to wait, never later than 2 x timeout after the
\* start, and it has returned by then.
C18_AlwaysReturns ==
    /\ Running =>
          /\ now <= start + 2 * timeout_secs
          /\ ENABLED (AggCheck \/ AggRecvOk \/ AggRecvErr \/ Tick)
    /\ Returned => returnedAt <= start + 2 * timeout_secs

\* a duplicate was discarded and the call returned after the latest wait
C18_Witness ==
    /\ Returned
    /\ Len(delivered) = 2
    /\ Len(headers) = 1
    /\ returnedAt = start + 2 * timeout_secs

SeenAgrees ==
    /\ { mac_addr(headers[i]) : i \in DOMAIN headers } = seen_macs
    /\ \A i, j \in DOMAIN headers :
          MacOf(headers[i]) = MacOf(headers[j]) => i = j
    /\ Len(headers) = Cardinality(seen_macs)

\* within one call, a step that changes the result or the seen-set is the
\* aggregator's (it leaves the threads alone) and appends one entry
OnlyAggregatorAppends ==
    (session' = session /\ << headers, seen_macs >>' # << headers, seen_macs >>) =>
        /\ aggPc = "wait"
        /\ aggPc' = "check"
        /\ UNCHANGED << taskPc, buf, nRecv, portOwner >>
        /\ \E val \in { chan[i].hdr : i \in DOMAIN chan } :
              /\ headers' = Append(headers, val)
              /\ seen_macs' = seen_macs \cup { mac_addr(val) }

\* C19: the seen-set and the result agree at every step (same addresses, no
\* address twice, same size); only the aggregator changes them, and the
\* result only grows by appending.
C19_SeenSetAgrees ==
    [] SeenAgrees /\ [][OnlyAggregatorAppends]_vars

\* two different devices are in the result and in the seen-set
C19_Witness ==
    /\ Len(headers) = 2
    /\ Cardinality(seen_macs) = 2
    /\ aggPc = "check"

(***************************************************************************)
(* The type filter, discover_filtered(timeout, device_type).  The source   *)
(* files at hand do not hold it (lib.rs declares modules beyond discovery  *)
(* and device); it is modelled from its description: discover, then a pass *)
(* that retains the entries of the given type, and no network activity of  *)
(* its own.  The snapshot discover returned is drawn from the sequences of *)
(* up to MaxSnap headers of different devices.                             *)
(***************************************************************************)
DeviceTypes == {"ETHERDREAM", "LUMIABRIDGE", "PIXELPUSHER", "UNKNOWN"}

SnapHeaders ==
    { Header_parse(recv_from(ZeroBuf, Frame(dv[1], dv[2]))) :
        dv \in { << 170, 2 >>, << 17, 1 >>, << 51, 2 >>, << 68, 7 >> } }

RECURSIVE SnapshotsOf(_)
SnapshotsOf(n) ==
    IF n = 0 THEN { << >> }
    ELSE LET shorter == SnapshotsOf(n - 1)
         IN  shorter \cup
             { Append(q, h) : q \in { r \in shorter : Len(r) = n - 1 },
                              h \in SnapHeaders }

Snapshots ==
    { q \in SnapshotsOf(MaxSnap) :
        \A i, j \in DOMAIN q : MacOf(q[i]) = MacOf(q[j]) => i = j }

\* a pass that retains the entries of every other type
retainOthers(snap, t) ==
    SelectSeq(snap, LAMBDA h : h.device_header.device_type # t)

\* the retain-matching-type pass
retain(snap, t) ==
    SelectSeq(snap, LAMBDA h : h.device_header.device_type = t)

FilterInit ==
    /\ SessionInit
    /\ CodecParked
    /\ PixelParked
    /\ fpc = "discovered"
    /\ snapshot \in Snapshots
    /\ filterType = "none"
    /\ filtered = << >>

\* discover_filtered(timeout, t), after its call of discover has returned
DiscoverFiltered(t) ==
    /\ fpc = "discovered"
    /\ filterType' = t
    /\ filtered' = retain(snapshot, t)
    /\ fpc' = "filtered"
    /\ UNCHANGED << snapshot, sessionVars, codecVars, pixelVars >>

FilterNext == \E t \in DeviceTypes : DiscoverFiltered(t)

FilterSpec == FilterInit /\ [][FilterNext]_vars

\* where an entry stands in the snapshot
SnapIdx(h) == CHOOSE i \in DOMAIN snapshot : snapshot[i] = h

FilteredIsSubsequence ==
    fpc = "filtered" =>
        /\ \A k \in DOMAIN filtered :
              /\ filtered[k].device_header.device_type = filterType
              /\ \E i \in DOMAIN snapshot : snapshot[i] = filtered[k]
        /\ \A i \in DOMAIN snapshot :
              snapshot[i].device_header.device_type = filterType
                  => \E k \in DOMAIN filtered : filtered[k] = snapshot[i]
        /\ \A k, l \in DOMAIN filtered :
              k < l => SnapIdx(filtered[k]) < SnapIdx(filtered[l])

\* C14: discover_filtered(timeout, t) returns exactly the entries of the
\* snapshot of discover whose device type is t, in the same relative order,
\* and its filtering step touches neither sockets, threads nor channel.
C14_FilterIsSubsequence ==
    /\ [] FilteredIsSubsequence
    /\ [][fpc' = "filtered" => UNCHANGED << portOwner, taskPc, nRecv, chan, buf >>]_vars

\* two PixelPushers were kept, in order, and a LumiaBridge between them dropped
C14_Witness ==
    /\ fpc = "filtered"
    /\ filterType = "PIXELPUSHER"
    /\ Len(snapshot) = 3
    /\ snapshot[2].device_header.device_type = "LUMIABRIDGE"
    /\ filtered = << snapshot[1], snapshot[3] >>

====
